---- MODULE Spec2Model ----
(***************************************************************************)
(* Model of aria-accordion.js: the AriaAccordion controller of one         *)
(* container, on a page that may hold a second accordion container.  The   *)
(* state is the attribute graph the controller writes (ids, aria-expanded, *)
(* aria-selected, tabindex, aria-hidden), the element holding input focus, *)
(* the queue of zero-delay timers and the outcome of the last handler.     *)
(* Strings are sequences of tokens and JavaScript's string '+' is sequence *)
(* concatenation.  Indexes are 0-based as in the source.                   *)
(***************************************************************************)
EXTENDS Integers, Sequences, FiniteSets, TLC

VARIABLES
    markup,         \* the container as authored, before decoration
    options,        \* this.options
    rootId,         \* 'id' attribute of this.root
    panelId,        \* 'id' attribute of each panel
    ariaLabelledby, \* 'aria-labelledby' attribute of each panel
    ariaHidden,     \* 'aria-hidden' attribute of each panel
    buttonId,       \* 'id' attribute of each generated button
    ariaControls,   \* 'aria-controls' attribute of each button
    ariaExpanded,   \* 'aria-expanded' attribute of each button
    ariaSelected,   \* 'aria-selected' attribute of each button
    tabindex,       \* 'tabindex' attribute of each button ("absent" when removed)
    activeElement,  \* the element holding input focus
    timers,         \* targets of the pending setTimeout(() => target.focus(), 0)
    thrown,         \* exception the last handler ended with, "none" otherwise
    lastEvent,      \* the event handled last
    other,          \* the other accordion container of the page, if any
    instances,      \* the array AriaAccordion.init returned
    history         \* the events handled so far, where they are recorded

vars == <<markup, options, rootId, panelId, ariaLabelledby, ariaHidden,
          buttonId, ariaControls, ariaExpanded, ariaSelected, tabindex,
          activeElement, timers, thrown, lastEvent, other, instances, history>>

(***************************************************************************)
(* Bounds of the model.                                                    *)
(***************************************************************************)
MaxPanels == 3
MaxTimers == 1
MaxPagePanels == 2
MaxInputs == 3

(***************************************************************************)
(* Key codes and key tables.                                               *)
(***************************************************************************)
keyPageUp == 33
keyPageDown == 34
keyEnd == 35
keyHome == 36
keyLeft == 37
keyUp == 38
keyRight == 39
keyDown == 40

\* The keys pressed on a button and inside a panel, and the modifier held.
ButtonKeyCodes == {keyPageUp, keyEnd, keyHome, keyLeft, keyUp, keyRight, keyDown}
PanelKeyCodes == {keyPageUp, keyPageDown, keyUp}
Modifiers == {"none", "ctrl", "shift"}

\* A keyboard event: its keyCode and the modifier key held with it.
ButtonKeyEvents == [keyCode : ButtonKeyCodes, modifier : Modifiers]
PanelKeyEvents == [keyCode : PanelKeyCodes, modifier : {"none", "ctrl"}]

ctrlKey(event) == event.modifier = "ctrl"

\* Array.prototype.includes
includes(array, x) == \E k \in 1..Len(array) : array[k] = x

ltrKeysSwapped ==
    [prev |-> <<keyUp, keyRight>>, next |-> <<keyDown, keyLeft>>,
     first |-> keyHome, last |-> keyEnd]

ltrKeys ==
    [prev |-> <<keyUp, keyLeft>>, next |-> <<keyDown, keyRight>>,
     first |-> keyHome, last |-> keyEnd]

rtlKeys ==
    [prev |-> <<keyUp, keyRight>>, next |-> <<keyDown, keyLeft>>,
     first |-> keyHome, last |-> keyEnd]

(***************************************************************************)
(* Default configuration (the options the model reads).                    *)
(***************************************************************************)
buttonSuffixId == <<"_tab">>
accordionPrefixId == <<"accordion">>

Null == -1

\* Elements of the document.
Root == <<"root">>
Button(i) == <<"button", i>>
Panel(i) == <<"panel", i>>
Header(i) == <<"header", i>>
Body == <<"body">>
\* A panel of the other container, a button element inside toggle i (copied
\* with the header's HTML or inserted later), and null.
OtherPanel(i) == <<"other-panel", i>>
Nested(i) == <<"nested", i>>
NoElement == <<"null">>

Panels == DOMAIN ariaHidden
\* this.buttons: the generated buttons in document order
Buttons == DOMAIN ariaExpanded
firstButton == 0
lastButton == Cardinality(Buttons) - 1

\* An attribute write on every button (the forEach loops), and on one.
setAll(attr, value) == [b \in DOMAIN attr |-> value]
setAttribute(attr, b, value) == [attr EXCEPT ![b] = value]

(***************************************************************************)
(* The markup handed to the constructor.  A panel is authored with or      *)
(* without an id, with or without data-accordion-open="true" and with or   *)
(* without a descendant matching headersSelector; the container with or    *)
(* without an id.  <<>> is a missing id.                                   *)
(***************************************************************************)
PanelMarkupsWith(ids, headers) == [id : ids, open : BOOLEAN, header : headers]

\* Panels that all hold a header.
PanelMarkups(ids) == PanelMarkupsWith(ids, {TRUE})

MarkupsWith(rootIds, ids, headers, n) ==
    [rootId : rootIds, panels : [0..(n - 1) -> PanelMarkupsWith(ids, headers)]]

MarkupsOf(rootIds, ids, n) == MarkupsWith(rootIds, ids, {TRUE}, n)

openPanels(m) == {i \in DOMAIN m.panels : m.panels[i].open}

\* Math.random().toString(32).slice(2, 12): some string
ReadableIndexes == {"k3v9", "7q0d"}

Options == [multiselectable : BOOLEAN, direction : {"ltr", "rtl"}]

\* Line 121 numbering panels from 1.
PanelIdForFromOne(ownId, containerId, index) ==
    (IF ownId # <<>> THEN ownId ELSE containerId) \o <<"-", ToString(index + 1)>>

\* const panelId = (panel.id || this.root.id) + '-' + index
PanelIdFor(ownId, containerId, index) ==
    (IF ownId # <<>> THEN ownId ELSE containerId) \o <<"-", ToString(index)>>

\* const buttonId = panelId + this.options.buttonSuffixId
ButtonIdFor(id) == id \o buttonSuffixId

\* id generated if not present
RootIdFor(m, readableIndex) ==
    IF m.rootId = <<>>
    THEN accordionPrefixId \o <<"-">> \o <<readableIndex>>
    ELSE m.rootId

\* button.setAttribute('tabIndex', '-1'), then for the first one
\* button.removeAttribute('tabindex')
InitialTabindex(index) == IF index = 0 THEN "absent" ELSE "-1"

\* 'aria-expanded' 'false' and 'aria-hidden' 'true', unless opened by default
InitialExpanded(panel) == IF panel.open THEN "true" ELSE "false"
InitialHidden(panel) == IF panel.open THEN "false" ELSE "true"

NoEvent(kind) ==
    [kind |-> kind, target |-> Null, keyCode |-> 0, modifier |-> "none"]

\* The attributes of a container as authored: no button exists yet.
authored(m) ==
    [rootId |-> m.rootId,
     panelId |-> [i \in DOMAIN m.panels |-> m.panels[i].id],
     buttonId |-> <<>>,
     ariaControls |-> <<>>,
     ariaLabelledby |-> [i \in DOMAIN m.panels |-> <<>>],
     ariaExpanded |-> <<>>,
     ariaHidden |-> [i \in DOMAIN m.panels |-> "absent"],
     ariaSelected |-> <<>>,
     tabindex |-> <<>>,
     thrown |-> "none"]

\* The panels the forEach of initAttributes gets through: all of them, or those
\* before the first panel where querySelector(headersSelector) is null, on
\* which header.innerHTML / header.innerText throws.
decoratedPanels(m) ==
    {i \in DOMAIN m.panels : \A j \in DOMAIN m.panels : j <= i => m.panels[j].header}

\* initAttributes: the attributes the constructor leaves, and how it ended.
initAttributes(m, readableIndex) ==
    LET rid == RootIdFor(m, readableIndex)
        done == decoratedPanels(m)
        pid == [i \in DOMAIN m.panels |->
                    IF i \in done THEN PanelIdFor(m.panels[i].id, rid, i)
                    ELSE m.panels[i].id]
    IN  [rootId |-> rid,
         panelId |-> pid,
         buttonId |-> [i \in done |-> ButtonIdFor(pid[i])],
         ariaControls |-> [i \in done |-> pid[i]],
         ariaLabelledby |-> [i \in DOMAIN m.panels |->
                    IF i \in done THEN ButtonIdFor(pid[i]) ELSE <<>>],
         ariaExpanded |-> [i \in done |-> InitialExpanded(m.panels[i])],
         ariaHidden |-> [i \in DOMAIN m.panels |->
                    IF i \in done THEN InitialHidden(m.panels[i]) ELSE "absent"],
         ariaSelected |-> [i \in done |-> "false"],
         tabindex |-> [i \in done |-> InitialTabindex(i)],
         thrown |-> IF done = DOMAIN m.panels THEN "none" ELSE "TypeError"]

(***************************************************************************)
(* Handlers.  Each is the whole handler: it runs to completion on the UI   *)
(* thread, so no other handler or timer sees a state inside it.            *)
(***************************************************************************)

\* Handlers that return normally.
Returns == thrown' = "none"

\* focusButtonEventHandler without its reset loop.
focusedAttributesNoReset(currentButton) ==
    [ariaSelected |-> setAttribute(ariaSelected, currentButton, "true"),
     tabindex |-> setAttribute(tabindex, currentButton, "null")]

\* focusButtonEventHandler: every button out of the tab order and unselected,
\* then the current one selected with setAttribute('tabindex', null).
focusedAttributes(currentButton) ==
    [ariaSelected |->
        setAttribute(setAll(ariaSelected, "false"), currentButton, "true"),
     tabindex |->
        setAttribute(setAll(tabindex, "-1"), currentButton, "null")]

focusButtonEventHandler(currentButton) ==
    /\ ariaSelected' = focusedAttributes(currentButton).ariaSelected
    /\ tabindex' = focusedAttributes(currentButton).tabindex
    /\ Returns
    /\ UNCHANGED <<ariaExpanded, ariaHidden, timers>>

\* document.getElementById over the panels of the page, those of the other
\* container included: the first one in document order carrying the id,
\* null when none does.
getElementById(id) ==
    LET own == {p \in Panels : panelId[p] = id}
        foreign == {q \in DOMAIN other.attrs.panelId : other.attrs.panelId[q] = id}
        first(found) == CHOOSE p \in found : \A q \in found : p <= q
    IN  IF other.before /\ foreign # {} THEN OtherPanel(first(foreign))
        ELSE IF own # {} THEN Panel(first(own))
        ELSE IF foreign # {} THEN OtherPanel(first(foreign))
        ELSE NoElement

\* The aria-hidden attributes of the page, and a write of one on an element.
ariaHiddenOfPage == [own |-> ariaHidden, other |-> other.attrs.ariaHidden]

setHidden(hidden, element, value) ==
    IF element[1] = "panel" THEN [hidden EXCEPT !.own[element[2]] = value]
    ELSE IF element[1] = "other-panel"
         THEN [hidden EXCEPT !.other[element[2]] = value]
    ELSE hidden

\* Lines 227-236 writing the button only.
toggledButtonOnly(currentButton, currentPanel) ==
    IF ariaExpanded[currentButton] = "false"
    THEN [ariaExpanded |-> setAttribute(ariaExpanded, currentButton, "true"),
          ariaHidden |-> ariaHiddenOfPage]
    ELSE [ariaExpanded |-> setAttribute(ariaExpanded, currentButton, "false"),
          ariaHidden |-> ariaHiddenOfPage]

\* opened or closed? (lines 227-236)
toggled(currentButton, currentPanel) ==
    IF ariaExpanded[currentButton] = "false"
    THEN [ariaExpanded |-> setAttribute(ariaExpanded, currentButton, "true"),
          ariaHidden |-> setHidden(ariaHiddenOfPage, currentPanel, "false")]
    ELSE [ariaExpanded |-> setAttribute(ariaExpanded, currentButton, "false"),
          ariaHidden |-> setHidden(ariaHiddenOfPage, currentPanel, "true")]

\* Lines 238-250 without the test of multiselectable.
othersClosedAlways(t, currentButton, currentPanel) ==
    [ariaHidden |->
        [own |-> [p \in Panels |->
                    IF currentPanel # Panel(p) THEN "true" ELSE t.ariaHidden.own[p]],
         other |-> t.ariaHidden.other],
     ariaExpanded |->
        [b \in Buttons |-> IF currentButton # b THEN "false" ELSE t.ariaExpanded[b]]]

\* Lines 238-250 left out.
othersClosedNever(t, currentButton, currentPanel) == t

\* Lines 238-250 without the loop over the buttons (lines 245-249).
othersClosedPanelsOnly(t, currentButton, currentPanel) ==
    IF options.multiselectable = FALSE
    THEN [ariaHidden |->
            [own |-> [p \in Panels |->
                        IF currentPanel # Panel(p) THEN "true"
                        ELSE t.ariaHidden.own[p]],
             other |-> t.ariaHidden.other],
          ariaExpanded |-> t.ariaExpanded]
    ELSE t

\* if(this.options.multiselectable === false): every other panel hidden,
\* every other button not expanded (lines 238-250)
othersClosed(t, currentButton, currentPanel) ==
    IF options.multiselectable = FALSE
    THEN [ariaHidden |->
            [own |-> [p \in Panels |->
                        IF currentPanel # Panel(p) THEN "true"
                        ELSE t.ariaHidden.own[p]],
             other |-> t.ariaHidden.other],
          ariaExpanded |->
            [b \in Buttons |->
                IF currentButton # b THEN "false" ELSE t.ariaExpanded[b]]]
    ELSE t

\* clickButtonEventHandler without the loop of lines 221-223.
clickButtonEventHandlerNoReset(currentButton) ==
    LET currentPanel == getElementById(ariaControls[currentButton])
        t == toggled(currentButton, currentPanel)
        c == othersClosed(t, currentButton, currentPanel)
    IN  /\ ariaSelected' = setAttribute(ariaSelected, currentButton, "true")
        /\ IF currentPanel = NoElement
           THEN /\ ariaExpanded' = t.ariaExpanded
                /\ thrown' = "TypeError"
                /\ UNCHANGED <<ariaHidden, other, timers>>
           ELSE /\ ariaExpanded' = c.ariaExpanded
                /\ ariaHidden' = c.ariaHidden.own
                /\ other' = [other EXCEPT !.attrs.ariaHidden = c.ariaHidden.other]
                /\ timers' = Append(timers, currentButton)
                /\ Returns
        /\ UNCHANGED tabindex

clickButtonEventHandler(currentButton) ==
    LET currentPanel == getElementById(ariaControls[currentButton])
        t == toggled(currentButton, currentPanel)
        c == othersClosed(t, currentButton, currentPanel)
    IN  /\ ariaSelected' =
            setAttribute(setAll(ariaSelected, "false"), currentButton, "true")
        /\ IF currentPanel = NoElement
           THEN \* currentPanel.setAttribute on null, after line 230 or 234
                /\ ariaExpanded' = t.ariaExpanded
                /\ thrown' = "TypeError"
                /\ UNCHANGED <<ariaHidden, other, timers>>
           ELSE /\ ariaExpanded' = c.ariaExpanded
                /\ ariaHidden' = c.ariaHidden.own
                /\ other' = [other EXCEPT !.attrs.ariaHidden = c.ariaHidden.other]
                /\ timers' = Append(timers, currentButton)
                /\ Returns
        /\ UNCHANGED tabindex

\* AriaAccordion.goToHeader without setAttribute('tabindex', null).
goToHeaderSelectingOnly(attrs, target) ==
    [ariaSelected |-> setAttribute(attrs.ariaSelected, target, "true"),
     tabindex |-> attrs.tabindex,
     timers |-> Append(attrs.timers, target)]

\* AriaAccordion.goToHeader queueing the transfer without its two writes.
goToHeaderNotWriting(attrs, target) ==
    [ariaSelected |-> attrs.ariaSelected,
     tabindex |-> attrs.tabindex,
     timers |-> Append(attrs.timers, target)]

\* AriaAccordion.goToHeader: target selected, setAttribute('tabindex', null),
\* and the focus transfer left to a zero-delay timer.
goToHeader(attrs, target) ==
    [ariaSelected |-> setAttribute(attrs.ariaSelected, target, "true"),
     tabindex |-> setAttribute(attrs.tabindex, target, "null"),
     timers |-> Append(attrs.timers, target)]

keysOf(direction) == IF direction = "ltr" THEN ltrKeys ELSE rtlKeys

allKeyCode(keys) == keys.prev \o keys.next \o <<keys.first>> \o <<keys.last>>

\* Lines 286-303 stopping at the two ends instead of wrapping.
newTargetOfNoWrap(keys, keyCode, index) ==
    IF keyCode = keyHome THEN firstButton
    ELSE IF keyCode = keyEnd THEN lastButton
    ELSE IF includes(keys.prev, keyCode)
         THEN (IF index = firstButton THEN firstButton ELSE index - 1)
    ELSE IF includes(keys.next, keyCode)
         THEN (IF index = lastButton THEN lastButton ELSE index + 1)
    ELSE Null

\* Lines 286-303 with Home and End exchanged.
newTargetOfHomeEndSwapped(keys, keyCode, index) ==
    IF keyCode = keyHome THEN lastButton
    ELSE IF keyCode = keyEnd THEN firstButton
    ELSE IF includes(keys.prev, keyCode)
         THEN (IF index = firstButton THEN lastButton ELSE index - 1)
    ELSE IF includes(keys.next, keyCode)
         THEN (IF index = lastButton THEN firstButton ELSE index + 1)
    ELSE Null

\* The new target of a directional key pressed on this.buttons[index]
\* (lines 286-303); Null when no branch is taken.
newTargetOf(keys, keyCode, index) ==
    IF keyCode = keyHome THEN firstButton
    ELSE IF keyCode = keyEnd THEN lastButton
    ELSE IF includes(keys.prev, keyCode)
         THEN (IF index = firstButton THEN lastButton ELSE index - 1)
    ELSE IF includes(keys.next, keyCode)
         THEN (IF index = lastButton THEN firstButton ELSE index + 1)
    ELSE Null

\* this.buttons.indexOf(element): -1 for an element that is none of them.
indexOf(element) == IF element[1] = "button" THEN element[2] ELSE -1

\* currentButton is closest(event.target, 'button'), a toggle or a button
\* nested in one.  this.buttons[k] outside the array is undefined, and
\* goToHeader(undefined) throws on target.setAttribute, after the reset loop.
keydownButtonEventHandler(currentButton, event) ==
    LET index == indexOf(currentButton)
        keys == keysOf(options.direction)
        newTarget == newTargetOf(keys, event.keyCode, index)
        reset == [ariaSelected |-> setAll(ariaSelected, "false"),
                  tabindex |-> setAll(tabindex, "-1"),
                  timers |-> timers]
        undefined == newTarget # Null /\ newTarget \notin Buttons
        after == IF newTarget # Null /\ ~undefined
                 THEN goToHeader(reset, newTarget) ELSE reset
    IN  /\ IF includes(allKeyCode(keys), event.keyCode) /\ ~ctrlKey(event)
           THEN /\ ariaSelected' = after.ariaSelected
                /\ tabindex' = after.tabindex
                /\ timers' = after.timers
                /\ thrown' = IF undefined THEN "TypeError" ELSE "none"
           ELSE /\ UNCHANGED <<ariaSelected, tabindex, timers>>
                /\ Returns
        /\ UNCHANGED <<ariaExpanded, ariaHidden>>

\* The parent of each element: root.insertBefore(button, panel) needs every
\* panel to be a child of the root, and the button becomes its sibling.
parentNode(element) ==
    IF element[1] = "header" THEN Panel(element[2])
    ELSE IF element[1] = "nested" THEN Button(element[2])
    ELSE IF element[1] \in {"panel", "button"} THEN Root
    ELSE Body

RECURSIVE ancestors(_)
ancestors(element) ==
    IF element = Body THEN {}
    ELSE {parentNode(element)} \cup ancestors(parentNode(element))

\* element.querySelector(panelsSelector): the first panel among the
\* descendants of the element, Null when there is none.
querySelectorPanel(element) ==
    LET inside == {p \in Panels : element \in ancestors(Panel(p))}
    IN  IF inside = {} THEN Null
        ELSE CHOOSE p \in inside : \A q \in inside : p <= q

\* getElementById is a method of Document, not of Element: this.root has none.
rootHasGetElementById == FALSE

\* The button carrying an id, Null when none does.
buttonById(id) ==
    LET found == {b \in Buttons : buttonId[b] = id}
    IN  IF found = {} THEN Null
        ELSE CHOOSE b \in found : \A q \in found : b <= q

keydownPanelEventHandler(target, event) ==
    LET panel == querySelectorPanel(target)
    IN  IF panel = Null \/ ~rootHasGetElementById
        THEN \* panel.getAttribute on null, or a call of undefined (lines 319-321)
             /\ thrown' = "TypeError"
             /\ UNCHANGED <<ariaSelected, tabindex, timers, ariaExpanded, ariaHidden>>
        ELSE LET button == buttonById(ariaLabelledby[panel])
                 index == button
                 current == [ariaSelected |-> ariaSelected,
                             tabindex |-> tabindex, timers |-> timers]
                 goal ==
                    IF event.keyCode = keyUp THEN button
                    ELSE IF event.keyCode = keyPageUp
                         THEN (IF button = firstButton THEN lastButton ELSE index - 1)
                    ELSE IF event.keyCode = keyPageDown
                         THEN (IF button = lastButton THEN firstButton ELSE index + 1)
                    ELSE Null
                 after == IF ctrlKey(event) /\ goal # Null
                          THEN goToHeader(current, goal) ELSE current
             IN  /\ ariaSelected' = after.ariaSelected
                 /\ tabindex' = after.tabindex
                 /\ timers' = after.timers
                 /\ Returns
                 /\ UNCHANGED <<ariaExpanded, ariaHidden>>

(***************************************************************************)
(* Events.  The listeners of initEvents: focus, click and keydown on each  *)
(* button, keydown on each panel; keyboard events go to the element that   *)
(* holds input focus.  A timer callback runs target.focus().               *)
(***************************************************************************)
decoration == <<markup, options, rootId, panelId, ariaLabelledby,
                buttonId, ariaControls>>

constructed == lastEvent.kind # "markup"

\* What lastEvent keeps of an event: its kind, its target, its key and modifier.
Event(kind, target, keyCode, modifier) ==
    [kind |-> kind, target |-> target, keyCode |-> keyCode, modifier |-> modifier]

\* A button gains input focus (Tab, pointer or script): its focus listener runs.
FocusEvent(b) ==
    /\ constructed
    /\ activeElement # Button(b)
    /\ activeElement' = Button(b)
    /\ focusButtonEventHandler(b)
    /\ lastEvent' = Event("focus", b, 0, "none")
    /\ UNCHANGED <<decoration, other, instances>>

Focus(b) == FocusEvent(b) /\ UNCHANGED history

\* Input focus goes into a panel, to its header (tabindex 0, line 114): no listener.
FocusHeader(p) ==
    /\ constructed
    /\ activeElement # Header(p)
    /\ activeElement' = Header(p)
    /\ lastEvent' = Event("focusin-panel", p, 0, "none")
    /\ Returns
    /\ UNCHANGED <<decoration, ariaSelected, tabindex, timers, ariaExpanded, ariaHidden>>
    /\ UNCHANGED <<other, instances, history>>

\* A button is activated: its click listener runs.
ClickEvent(b) ==
    /\ constructed
    /\ clickButtonEventHandler(b)
    /\ lastEvent' = Event("click", b, 0, "none")
    /\ UNCHANGED <<decoration, activeElement, instances>>

Click(b) ==
    /\ Len(timers) < MaxTimers
    /\ ClickEvent(b)
    /\ UNCHANGED history

\* A key goes down on the element holding focus, toggle b or the button nested
\* in it: the keydown listener of toggle b runs, and closest(event.target,
\* 'button') is the element itself.
KeydownButtonEvent(target, event) ==
    /\ constructed
    /\ activeElement = target
    /\ keydownButtonEventHandler(target, event)
    /\ lastEvent' = Event(IF target[1] = "button" THEN "keydown" ELSE "keydown-nested",
                          target[2], event.keyCode, event.modifier)
    /\ UNCHANGED <<decoration, activeElement, other, instances>>

KeydownButton(b, event) ==
    /\ Len(timers) < MaxTimers
    /\ KeydownButtonEvent(Button(b), event)
    /\ UNCHANGED history

\* A key goes down inside a panel: the event bubbles to the panel's listener.
KeydownPanel(p, event) ==
    /\ constructed
    /\ activeElement = Header(p)
    /\ Len(timers) < MaxTimers
    /\ keydownPanelEventHandler(Header(p), event)
    /\ lastEvent' = Event("keydown-panel", p, event.keyCode, event.modifier)
    /\ UNCHANGED <<decoration, activeElement, other, instances, history>>

\* The timer queued last fires first.
TimerEventNewestFirst ==
    /\ constructed
    /\ timers # <<>>
    /\ LET target == timers[Len(timers)]
           rest == SubSeq(timers, 1, Len(timers) - 1)
       IN  /\ lastEvent' = Event("timeout", target, 0, "none")
           /\ activeElement' = Button(target)
           /\ IF activeElement = Button(target)
              THEN /\ timers' = rest
                   /\ Returns
                   /\ UNCHANGED <<ariaSelected, tabindex, ariaExpanded, ariaHidden>>
              ELSE /\ ariaSelected' = focusedAttributes(target).ariaSelected
                   /\ tabindex' = focusedAttributes(target).tabindex
                   /\ timers' = rest
                   /\ Returns
                   /\ UNCHANGED <<ariaExpanded, ariaHidden>>
    /\ UNCHANGED <<decoration, other, instances>>

\* The oldest timer fires: target.focus().  A focus event is dispatched only
\* when the target did not hold focus already.
TimerEvent ==
    /\ constructed
    /\ timers # <<>>
    /\ LET target == Head(timers)
       IN  /\ lastEvent' = Event("timeout", target, 0, "none")
           /\ activeElement' = Button(target)
           /\ IF activeElement = Button(target)
              THEN /\ timers' = Tail(timers)
                   /\ Returns
                   /\ UNCHANGED <<ariaSelected, tabindex, ariaExpanded, ariaHidden>>
              ELSE /\ ariaSelected' = focusedAttributes(target).ariaSelected
                   /\ tabindex' = focusedAttributes(target).tabindex
                   /\ timers' = Tail(timers)
                   /\ Returns
                   /\ UNCHANGED <<ariaExpanded, ariaHidden>>
    /\ UNCHANGED <<decoration, other, instances>>

Timeout == TimerEvent /\ UNCHANGED history

(***************************************************************************)
(* Specifications.                                                         *)
(***************************************************************************)
PanelCounts == 0..MaxPanels

\* Containers driven through events: one panel or MaxPanels, without ids;
\* no panel marked open, the second one, or the first two.
InteractionMarkups ==
    {m \in UNION {MarkupsOf({<<"faq">>}, {<<>>}, n) : n \in {1, MaxPanels}} :
        openPanels(m) \in {{}, {1}, {0, 1}}}

\* Containers handed to the constructor: with and without ids.
DecorationMarkups ==
    UNION {MarkupsOf({<<>>, <<"faq">>}, {<<>>, <<"intro">>}, n) : n \in PanelCounts}

Decorated(m, opts, readableIndex) ==
    LET d == initAttributes(m, readableIndex)
    IN  /\ markup = m
        /\ options = opts
        /\ rootId = d.rootId
        /\ panelId = d.panelId
        /\ ariaLabelledby = d.ariaLabelledby
        /\ ariaHidden = d.ariaHidden
        /\ buttonId = d.buttonId
        /\ ariaControls = d.ariaControls
        /\ ariaExpanded = d.ariaExpanded
        /\ ariaSelected = d.ariaSelected
        /\ tabindex = d.tabindex
        /\ activeElement = Body
        /\ timers = <<>>
        /\ thrown = "none"
        /\ lastEvent = NoEvent("constructor")

\* No other accordion container on the page.
Nobody ==
    LET nothing == [rootId |-> <<>>, panels |-> <<>>]
    IN  [before |-> FALSE, markup |-> nothing, attrs |-> authored(nothing)]

\* One accordion on the page, built by its constructor; no event recorded.
Alone ==
    /\ other = Nobody
    /\ instances = <<>>
    /\ history = <<>>

\* The state after new AriaAccordion(container, options).
Init ==
    \E m \in InteractionMarkups, opts \in Options, r \in ReadableIndexes :
        Decorated(m, opts, r) /\ Alone

Next ==
    \/ \E b \in Buttons : Focus(b)
    \/ \E p \in Panels : FocusHeader(p)
    \/ \E b \in Buttons : Click(b)
    \/ \E b \in Buttons, event \in ButtonKeyEvents : KeydownButton(b, event)
    \/ \E p \in Panels, event \in PanelKeyEvents : KeydownPanel(p, event)
    \/ Timeout

Spec == Init /\ [][Next]_vars

\* The page before the constructor runs: no button exists yet.
Undecorated(m, opts) ==
    /\ markup = m
    /\ options = opts
    /\ rootId = m.rootId
    /\ panelId = [i \in DOMAIN m.panels |-> m.panels[i].id]
    /\ ariaLabelledby = [i \in DOMAIN m.panels |-> <<>>]
    /\ ariaHidden = [i \in DOMAIN m.panels |-> "absent"]
    /\ buttonId = <<>>
    /\ ariaControls = <<>>
    /\ ariaExpanded = <<>>
    /\ ariaSelected = <<>>
    /\ tabindex = <<>>
    /\ activeElement = Body
    /\ timers = <<>>
    /\ thrown = "none"
    /\ lastEvent = NoEvent("markup")

InitMarkup ==
    \E m \in DecorationMarkups, opts \in Options : Undecorated(m, opts) /\ Alone

\* new AriaAccordion(container, options)
Construct(readableIndex) ==
    /\ ~constructed
    /\ LET d == initAttributes(markup, readableIndex)
       IN  /\ rootId' = d.rootId
           /\ panelId' = d.panelId
           /\ ariaLabelledby' = d.ariaLabelledby
           /\ ariaHidden' = d.ariaHidden
           /\ buttonId' = d.buttonId
           /\ ariaControls' = d.ariaControls
           /\ ariaExpanded' = d.ariaExpanded
           /\ ariaSelected' = d.ariaSelected
           /\ tabindex' = d.tabindex
           /\ thrown' = d.thrown
    /\ lastEvent' = NoEvent("constructor")
    /\ UNCHANGED <<markup, options, activeElement, timers>>
    /\ UNCHANGED <<other, instances, history>>

NextDecoration == \E r \in ReadableIndexes : Construct(r)

SpecDecoration == InitMarkup /\ [][NextDecoration]_vars

(***************************************************************************)
(* An accordion whose toggles each hold a nested button element: keyboard  *)
(* events of the nested button bubble to the toggle's keydown listener,    *)
(* with a currentButton that is not in this.buttons.                       *)
(***************************************************************************)

\* Input focus goes to the button nested in toggle b: 'focus' does not bubble,
\* no listener runs.
FocusNested(b) ==
    /\ constructed
    /\ activeElement # Nested(b)
    /\ activeElement' = Nested(b)
    /\ lastEvent' = Event("focusin-nested", b, 0, "none")
    /\ Returns
    /\ UNCHANGED <<decoration, ariaSelected, tabindex, timers, ariaExpanded, ariaHidden>>
    /\ UNCHANGED <<other, instances, history>>

\* A key goes down on the nested button holding focus.
KeydownNested(b, event) ==
    /\ Len(timers) < MaxTimers
    /\ KeydownButtonEvent(Nested(b), event)
    /\ UNCHANGED history

NextUntracked ==
    \/ \E b \in Buttons : Focus(b)
    \/ \E b \in Buttons : FocusNested(b)
    \/ \E b \in Buttons : Click(b)
    \/ \E b \in Buttons, event \in ButtonKeyEvents : KeydownButton(b, event)
    \/ \E b \in Buttons, event \in ButtonKeyEvents : KeydownNested(b, event)
    \/ Timeout

SpecUntracked == Init /\ [][NextUntracked]_vars

(***************************************************************************)
(* Bulk initialization.  The page holds two containers matching the        *)
(* selector, this one and the other one, either of them first in document  *)
(* order; a panel may lack its header.                                     *)
(***************************************************************************)

\* Containers of 1..MaxPanels panels without ids, none marked open, each panel
\* with or without a header.
BulkMarkups(rootIds) ==
    {m \in UNION {MarkupsWith(rootIds, {<<>>}, BOOLEAN, n) : n \in 1..MaxPanels} :
        openPanels(m) = {}}

InitPage ==
    \E m \in BulkMarkups({<<"faq">>}), o \in BulkMarkups({<<"help">>}),
       opts \in Options, before \in BOOLEAN :
        /\ Undecorated(m, opts)
        /\ other = [before |-> before, markup |-> o, attrs |-> authored(o)]
        /\ instances = <<>>
        /\ history = <<>>

\* AriaAccordion.init(selector, options): containers.map(container => new
\* AriaAccordion(container, ...)) over the containers in document order.  An
\* exception of a constructor ends the map: the containers after it are not
\* visited and no array is returned.
AriaAccordionInit(readableIndex) ==
    LET dThis == initAttributes(markup, readableIndex)
        dOther == initAttributes(other.markup, readableIndex)
        thisVisited == ~other.before \/ dOther.thrown = "none"
        otherVisited == other.before \/ dThis.thrown = "none"
        failed == \/ thisVisited /\ dThis.thrown # "none"
                  \/ otherVisited /\ dOther.thrown # "none"
    IN  /\ ~constructed
        /\ IF thisVisited
           THEN /\ rootId' = dThis.rootId
                /\ panelId' = dThis.panelId
                /\ ariaLabelledby' = dThis.ariaLabelledby
                /\ ariaHidden' = dThis.ariaHidden
                /\ buttonId' = dThis.buttonId
                /\ ariaControls' = dThis.ariaControls
                /\ ariaExpanded' = dThis.ariaExpanded
                /\ ariaSelected' = dThis.ariaSelected
                /\ tabindex' = dThis.tabindex
           ELSE UNCHANGED <<rootId, panelId, ariaLabelledby, ariaHidden, buttonId,
                            ariaControls, ariaExpanded, ariaSelected, tabindex>>
        /\ other' = IF otherVisited THEN [other EXCEPT !.attrs = dOther] ELSE other
        /\ thrown' = IF failed THEN "TypeError" ELSE "none"
        /\ instances' = IF failed THEN <<>>
                        ELSE IF other.before THEN <<"other", "this">>
                        ELSE <<"this", "other">>
        /\ lastEvent' = NoEvent("init")
        /\ UNCHANGED <<markup, options, activeElement, timers, history>>

NextInit == \E r \in ReadableIndexes : AriaAccordionInit(r)

SpecInit == InitPage /\ [][NextInit]_vars

(***************************************************************************)
(* Two accordion instances on one page.  Both containers are built; the    *)
(* events are those of this instance, and the other container lies before  *)
(* or after this one in the document.  Panels are authored with or         *)
(* without an id, and the same id may be authored in both containers.      *)
(***************************************************************************)
PageMarkups(rootIds, n) == MarkupsOf(rootIds, {<<>>, <<"intro">>}, n)

\* This container has MaxPagePanels panels, none marked open; the other one
\* has a single panel.
InitInstances ==
    \E m \in PageMarkups({<<"faq">>}, MaxPagePanels),
       o \in PageMarkups({<<"help">>}, 1),
       opts \in Options, r \in ReadableIndexes, before \in BOOLEAN :
        /\ openPanels(m) = {}
        /\ Decorated(m, opts, r)
        /\ other = [before |-> before, markup |-> o, attrs |-> initAttributes(o, r)]
        /\ instances = <<"this", "other">>
        /\ history = <<>>

SpecPage == InitInstances /\ [][Next]_vars

(***************************************************************************)
(* Input racing the deferred focus transfers.  Up to MaxInputs focus,      *)
(* click and keydown events arrive at any moment, each handled while the   *)
(* transfers queued by earlier ones are still pending; timers fire in the  *)
(* order queued.  history records every step and the transfer it queued.   *)
(***************************************************************************)
RacingKeyEvents == [keyCode : {keyUp, keyDown, keyHome}, modifier : {"none"}]

\* The step is appended to the history, with the target of the transfer it
\* queued (Null when it queued none).
Recorded ==
    history' = Append(history,
        [kind |-> lastEvent'.kind,
         target |-> lastEvent'.target,
         scheduled |-> IF Len(timers') > Len(timers)
                       THEN timers'[Len(timers')] ELSE Null])

inputs == Cardinality({k \in 1..Len(history) : history[k].kind # "timeout"})

FocusRecorded(b) == inputs < MaxInputs /\ FocusEvent(b) /\ Recorded
ClickRecorded(b) == inputs < MaxInputs /\ ClickEvent(b) /\ Recorded
KeydownRecorded(b, event) ==
    inputs < MaxInputs /\ KeydownButtonEvent(Button(b), event) /\ Recorded
TimeoutRecorded == TimerEvent /\ Recorded

\* An ltr accordion of MaxPanels panels, none marked open.
InitRacing ==
    \E m \in InteractionMarkups, opts \in Options, r \in ReadableIndexes :
        /\ openPanels(m) = {}
        /\ DOMAIN m.panels = 0..(MaxPanels - 1)
        /\ opts.direction = "ltr"
        /\ Decorated(m, opts, r)
        /\ Alone

NextInterleaving ==
    \/ \E b \in Buttons : FocusRecorded(b)
    \/ \E b \in Buttons : ClickRecorded(b)
    \/ \E b \in Buttons, event \in RacingKeyEvents : KeydownRecorded(b, event)
    \/ TimeoutRecorded

SpecInterleaving == InitRacing /\ [][NextInterleaving]_vars

(***************************************************************************)
(* Vocabulary of the properties.                                           *)
(***************************************************************************)
reachable(b) == tabindex[b] # "-1"
ReachableButtons == {b \in Buttons : reachable(b)}
SelectedButtons == {b \in Buttons : ariaSelected[b] = "true"}
ExpandedButtons == {b \in Buttons : ariaExpanded[b] = "true"}
VisiblePanels == {p \in Panels : ariaHidden[p] = "false"}

\* t is the one reachable and the one selected toggle.
OnlyToggle(t) == ReachableButtons = {t} /\ SelectedButtons = {t}

\* The same of the state a step leads to.
OnlyToggleAfter(t) == ReachableButtons' = {t} /\ SelectedButtons' = {t}

nextOrdinal(i) == (i + 1) % Cardinality(Buttons)
prevOrdinal(i) == (i + Cardinality(Buttons) - 1) % Cardinality(Buttons)

\* Nothing but one click on toggle b has happened since construction.
FirstClickOn(b) ==
    /\ lastEvent = Event("click", b, 0, "none")
    /\ activeElement = Body
    /\ tabindex[0] = "absent"
    /\ timers = <<b>>

(***************************************************************************)
(* C1 Single-reachable invariant: in an accordion with at least one panel, *)
(* after construction and after every handled event exactly one toggle is  *)
(* reachable (tabindex not '-1'); after construction it is the first one.  *)
(***************************************************************************)
SingleReachable ==
    Buttons # {} =>
        /\ Cardinality(ReachableButtons) = 1
        /\ lastEvent.kind = "constructor" => ReachableButtons = {firstButton}

\* A timer moved focus to the last of three toggles, now the reachable one.
SingleReachableWitness ==
    /\ lastEvent.kind = "timeout"
    /\ Cardinality(Buttons) >= 3
    /\ activeElement = Button(lastButton)
    /\ ReachableButtons = {lastButton}

(***************************************************************************)
(* C2 Mirror invariant: in every reachable state, for every panel i the    *)
(* toggle's aria-expanded is "true" exactly when the panel's aria-hidden   *)
(* is "false", and "false" exactly when it is "true".                      *)
(***************************************************************************)
Mirror ==
    \A i \in Panels :
        /\ ariaExpanded[i] = "true" <=> ariaHidden[i] = "false"
        /\ ariaExpanded[i] = "false" <=> ariaHidden[i] = "true"

\* After a click one panel is open beside a closed one.
MirrorWitness ==
    /\ lastEvent.kind = "click"
    /\ \E i, j \in Panels :
        /\ ariaExpanded[i] = "true" /\ ariaHidden[i] = "false"
        /\ ariaExpanded[j] = "false" /\ ariaHidden[j] = "true"

(***************************************************************************)
(* C3 Single-open invariant: with multiselectable=false and at most one    *)
(* panel marked open by default, at most one panel is expanded in every    *)
(* reachable state.                                                        *)
(***************************************************************************)
SingleOpen ==
    (options.multiselectable = FALSE /\ Cardinality(openPanels(markup)) <= 1) =>
        /\ Cardinality(ExpandedButtons) <= 1
        /\ Cardinality(VisiblePanels) <= 1

\* Panel 1 was open by default; toggle 0 was clicked and panel 0 is the open one.
SingleOpenWitness ==
    /\ options.multiselectable = FALSE
    /\ openPanels(markup) = {1}
    /\ lastEvent = Event("click", 0, 0, "none")
    /\ ExpandedButtons = {0}
    /\ VisiblePanels = {0}

(***************************************************************************)
(* C4 Single-select exclusivity: with multiselectable=false, a click on a  *)
(* collapsed toggle k while another panel j is expanded leaves j collapsed *)
(* and k expanded; the handler is one step, and in neither the state       *)
(* before nor the state after it are j and k both expanded.                *)
(***************************************************************************)
SingleSelectExclusivity ==
    [][(lastEvent'.kind = "click" /\ options.multiselectable = FALSE) =>
        LET k == lastEvent'.target
        IN  \A j \in Buttons \ {k} :
                (ariaExpanded[k] = "false" /\ ariaExpanded[j] = "true") =>
                    /\ ariaExpanded'[j] = "false" /\ ariaHidden'[j] = "true"
                    /\ ariaExpanded'[k] = "true" /\ ariaHidden'[k] = "false"
                    /\ ~(ariaExpanded[j] = "true" /\ ariaExpanded[k] = "true")
                    /\ ~(ariaHidden[j] = "false" /\ ariaHidden[k] = "false")
                    /\ ~(ariaExpanded'[j] = "true" /\ ariaExpanded'[k] = "true")
                    /\ ~(ariaHidden'[j] = "false" /\ ariaHidden'[k] = "false")]_vars

\* The first click, on toggle 2 while panel 1 was open by default.
SingleSelectExclusivityWitness ==
    /\ options.multiselectable = FALSE
    /\ openPanels(markup) = {1}
    /\ FirstClickOn(2)
    /\ ExpandedButtons = {2}
    /\ VisiblePanels = {2}

(***************************************************************************)
(* C5 Click toggles state: with multiselectable=true, a click on toggle k  *)
(* flips the expanded state of panel k and leaves the expanded state of    *)
(* every other panel and toggle unchanged.                                 *)
(***************************************************************************)
ClickTogglesState ==
    [][(lastEvent'.kind = "click" /\ options.multiselectable = TRUE) =>
        LET k == lastEvent'.target
        IN  /\ ariaExpanded[k] = "false" =>
                    ariaExpanded'[k] = "true" /\ ariaHidden'[k] = "false"
            /\ ariaExpanded[k] = "true" =>
                    ariaExpanded'[k] = "false" /\ ariaHidden'[k] = "true"
            /\ \A j \in Buttons \ {k} :
                /\ ariaExpanded'[j] = ariaExpanded[j]
                /\ ariaHidden'[j] = ariaHidden[j]]_vars

\* The first click, on toggle 1 of three while panels 0 and 1 were open by
\* default: panel 1 is closed, panel 0 still open.
ClickTogglesStateWitness ==
    /\ options.multiselectable = TRUE
    /\ Cardinality(Buttons) >= 3
    /\ openPanels(markup) = {0, 1}
    /\ FirstClickOn(1)
    /\ ExpandedButtons = {0}
    /\ VisiblePanels = {0}

(***************************************************************************)
(* C6 Circular navigation: a 'next' key pressed without modifier on toggle *)
(* i makes toggle i+1 (the first after the last) the one reachable and     *)
(* selected toggle; a 'prev' key makes it toggle i-1 (the last before the  *)
(* first).                                                                 *)
(***************************************************************************)
CircularNavigation ==
    [][(lastEvent'.kind = "keydown" /\ lastEvent'.modifier = "none") =>
        LET i == lastEvent'.target
            k == lastEvent'.keyCode
        IN  /\ includes(keysOf(options.direction).next, k) =>
                    OnlyToggleAfter(nextOrdinal(i))
            /\ includes(keysOf(options.direction).prev, k) =>
                    OnlyToggleAfter(prevOrdinal(i))]_vars

\* Down pressed on the last of three toggles: the first is reachable and selected.
CircularNavigationWitness ==
    /\ Cardinality(Buttons) >= 3
    /\ lastEvent = Event("keydown", lastButton, keyDown, "none")
    /\ activeElement = Button(lastButton)
    /\ OnlyToggle(firstButton)
    /\ timers = <<firstButton>>

(***************************************************************************)
(* C7 Home/End: Home pressed without modifier on any toggle, in either     *)
(* direction, makes toggle 0 the one reachable and selected toggle; End    *)
(* makes it the last toggle.                                               *)
(***************************************************************************)
HomeEnd ==
    [][(lastEvent'.kind = "keydown" /\ lastEvent'.modifier = "none") =>
        /\ lastEvent'.keyCode = keyHome => OnlyToggleAfter(0)
        /\ lastEvent'.keyCode = keyEnd =>
                OnlyToggleAfter(Cardinality(Buttons) - 1)]_vars

\* End pressed on the middle toggle of an rtl accordion.
HomeEndWitness ==
    /\ options.direction = "rtl"
    /\ Cardinality(Buttons) >= 3
    /\ lastEvent = Event("keydown", 1, keyEnd, "none")
    /\ activeElement = Button(1)
    /\ OnlyToggle(Cardinality(Buttons) - 1)

(***************************************************************************)
(* C8 Direction-sensitive key mapping: in ltr Up and Left mean 'prev',     *)
(* Down and Right mean 'next'; in rtl Left means 'next' and Right 'prev',  *)
(* Up and Down as in ltr.  So on every toggle Left in rtl reaches the      *)
(* target of Right in ltr, and Right in rtl the target of Left in ltr.     *)
(***************************************************************************)
meaningOf(direction, keyCode) ==
    IF keyCode = keyUp THEN "prev"
    ELSE IF keyCode = keyDown THEN "next"
    ELSE IF keyCode = keyLeft THEN (IF direction = "ltr" THEN "prev" ELSE "next")
    ELSE IF keyCode = keyRight THEN (IF direction = "ltr" THEN "next" ELSE "prev")
    ELSE "other"

DirectionMapping ==
    [][(lastEvent'.kind = "keydown" /\ lastEvent'.modifier = "none") =>
        LET i == lastEvent'.target
            k == lastEvent'.keyCode
        IN  /\ meaningOf(options.direction, k) = "prev" =>
                    OnlyToggleAfter(prevOrdinal(i))
            /\ meaningOf(options.direction, k) = "next" =>
                    OnlyToggleAfter(nextOrdinal(i))
            /\ newTargetOf(keysOf("rtl"), keyLeft, i)
                    = newTargetOf(keysOf("ltr"), keyRight, i)
            /\ newTargetOf(keysOf("rtl"), keyRight, i)
                    = newTargetOf(keysOf("ltr"), keyLeft, i)
            /\ newTargetOf(keysOf("rtl"), keyUp, i)
                    = newTargetOf(keysOf("ltr"), keyUp, i)
            /\ newTargetOf(keysOf("rtl"), keyDown, i)
                    = newTargetOf(keysOf("ltr"), keyDown, i)]_vars

\* Left pressed on the first of three toggles of an rtl accordion: the second
\* is reachable and selected.
DirectionMappingWitness ==
    /\ options.direction = "rtl"
    /\ Cardinality(Buttons) >= 3
    /\ lastEvent = Event("keydown", 0, keyLeft, "none")
    /\ activeElement = Button(0)
    /\ OnlyToggle(1)

(***************************************************************************)
(* C9 Panel shortcuts: a keydown with Ctrl held while focus is inside the  *)
(* open panel i selects toggle i (Ctrl+Up), toggle i-1 or the last         *)
(* (Ctrl+PageUp), or toggle i+1 or the first (Ctrl+PageDown), makes it     *)
(* reachable and schedules the focus transfer to it.                       *)
(***************************************************************************)
shortcutTarget(i, keyCode) ==
    IF keyCode = keyUp THEN i
    ELSE IF keyCode = keyPageUp THEN prevOrdinal(i)
    ELSE nextOrdinal(i)

PanelShortcuts ==
    [][( /\ lastEvent'.kind = "keydown-panel"
         /\ lastEvent'.modifier = "ctrl"
         /\ lastEvent'.keyCode \in {keyUp, keyPageUp, keyPageDown}
         /\ activeElement = Header(lastEvent'.target)
         /\ ariaHidden[lastEvent'.target] = "false" ) =>
        LET goal == shortcutTarget(lastEvent'.target, lastEvent'.keyCode)
        IN  /\ ariaSelected'[goal] = "true"
            /\ tabindex'[goal] # "-1"
            /\ timers' = Append(timers, goal)]_vars

(***************************************************************************)
(* C10 Decoration result: a container of N panels, none with an id and     *)
(* none marked open, has after construction N generated toggles, toggle i  *)
(* with id '<containerId>-<i>_tab', every toggle not expanded and not      *)
(* selected, and only toggle 0 reachable.                                  *)
(***************************************************************************)
DecorationResult ==
    ( /\ lastEvent.kind = "constructor"
      /\ \A i \in DOMAIN markup.panels :
            markup.panels[i].id = <<>> /\ ~markup.panels[i].open ) =>
        /\ Buttons = DOMAIN markup.panels
        /\ DOMAIN buttonId = DOMAIN markup.panels
        /\ markup.rootId # <<>> => rootId = markup.rootId
        /\ \A i \in Buttons :
            /\ buttonId[i] = rootId \o <<"-", ToString(i), "_tab">>
            /\ ariaExpanded[i] = "false"
            /\ ariaSelected[i] = "false"
            /\ reachable(i) <=> i = 0

\* Three panels without ids in the container "faq": the third toggle is "faq-2_tab".
DecorationResultWitness ==
    /\ lastEvent.kind = "constructor"
    /\ markup.rootId = <<"faq">>
    /\ DOMAIN markup.panels = 0..2
    /\ \A i \in DOMAIN markup.panels :
            markup.panels[i].id = <<>> /\ ~markup.panels[i].open
    /\ buttonId[2] = <<"faq", "-", "2", "_tab">>
    /\ ReachableButtons = {0}

(***************************************************************************)
(* C11 Identifier derivation: at decoration a panel that already has an id *)
(* keeps that id unchanged, a panel without an id at ordinal i gets        *)
(* '<containerId>-<i>', and in both cases the toggle's id is the panel id  *)
(* followed by buttonSuffixId.                                             *)
(***************************************************************************)
IdentifierDerivation ==
    lastEvent.kind = "constructor" =>
        \A i \in DOMAIN markup.panels :
            /\ markup.panels[i].id # <<>> => panelId[i] = markup.panels[i].id
            /\ markup.panels[i].id = <<>> =>
                    panelId[i] = rootId \o <<"-", ToString(i)>>
            /\ buttonId[i] = panelId[i] \o buttonSuffixId

(***************************************************************************)
(* C15 Invalid open markers are flagged: with multiselectable=false and    *)
(* two or more panels marked open by default, initialization fails rather  *)
(* than silently producing a state with more than one panel expanded.      *)
(***************************************************************************)
InvalidOpenMarkersFlagged ==
    ( /\ lastEvent.kind = "constructor"
      /\ options.multiselectable = FALSE
      /\ Cardinality(openPanels(markup)) >= 2 ) =>
        /\ thrown # "none"
        /\ Cardinality(ExpandedButtons) <= 1

(***************************************************************************)
(* C16 Deferred focus ordering: no click or keydown handler moves input    *)
(* focus; the handler that requests a transfer ends with the transfer      *)
(* queued and its attribute writes applied (target selected, for           *)
(* goToHeader also reachable, for a click the expanded and hidden          *)
(* attributes of all panels updated), and the transfer to the target is a  *)
(* later step taking the oldest queued request.                            *)
(***************************************************************************)
DeferredFocusOrdering ==
    [][ /\ lastEvent'.kind \in {"click", "keydown", "keydown-panel"} =>
                activeElement' = activeElement
        /\ lastEvent'.kind = "click" =>
                LET t == lastEvent'.target
                IN  /\ timers' = Append(timers, t)
                    /\ ariaSelected'[t] = "true"
                    /\ ariaExpanded'[t] # ariaExpanded[t]
                    /\ \A i \in Panels :
                        ariaExpanded'[i] = "true" <=> ariaHidden'[i] = "false"
                    /\ options.multiselectable = FALSE =>
                        \A i \in Panels \ {t} : ariaHidden'[i] = "true"
        /\ (lastEvent'.kind = "keydown" /\ timers' # timers) =>
                LET t == timers'[Len(timers')]
                IN  /\ timers' = Append(timers, t)
                    /\ ariaSelected'[t] = "true"
                    /\ tabindex'[t] # "-1"
        /\ lastEvent'.kind = "timeout" =>
                /\ timers # <<>>
                /\ lastEvent'.target = Head(timers)
                /\ timers' = Tail(timers)
                /\ activeElement' = Button(Head(timers)) ]_vars

\* Toggle 2 was clicked while focus was elsewhere: it is selected and its
\* panel open, the transfer is queued and focus has not moved yet.
DeferredFocusOrderingWitness ==
    /\ lastEvent = Event("click", 2, 0, "none")
    /\ timers = <<2>>
    /\ activeElement # Button(2)
    /\ ariaSelected[2] = "true"
    /\ ariaExpanded[2] = "true"
    /\ ariaHidden[2] = "false"

(***************************************************************************)
(* C17 Modifier guard: a keydown of Up, Down, Left, Right, Home or End on  *)
(* a toggle with a modifier key held leaves the reachable and selected     *)
(* state of every toggle unchanged and schedules no focus transfer.        *)
(***************************************************************************)
ModifierGuard ==
    [][ ( /\ lastEvent'.kind = "keydown"
          /\ lastEvent'.keyCode \in
                {keyUp, keyDown, keyLeft, keyRight, keyHome, keyEnd}
          /\ lastEvent'.modifier # "none" ) =>
            /\ ReachableButtons' = ReachableButtons
            /\ SelectedButtons' = SelectedButtons
            /\ timers' = timers ]_vars

(***************************************************************************)
(* C18 At most one selected: in every state reachable by click, focus and  *)
(* keydown events at most one toggle has aria-selected "true"; none has    *)
(* it after construction, and after a click the activated toggle is the    *)
(* only selected one.                                                      *)
(***************************************************************************)
AtMostOneSelected ==
    /\ Cardinality(SelectedButtons) <= 1
    /\ lastEvent.kind = "constructor" => SelectedButtons = {}
    /\ lastEvent.kind = "click" => SelectedButtons = {lastEvent.target}

\* Toggle 2 was clicked while toggle 1 was the reachable one: toggle 2 is the
\* only selected one, toggle 1 still the reachable one.
AtMostOneSelectedWitness ==
    /\ lastEvent = Event("click", 2, 0, "none")
    /\ SelectedButtons = {2}
    /\ ReachableButtons = {1}

(***************************************************************************)
(* C19 Selected agrees with reachable at quiescence: in every reachable    *)
(* state with no deferred focus transfer pending, a toggle that is         *)
(* selected is also the reachable toggle.                                  *)
(***************************************************************************)
SelectedIsReachable ==
    timers = <<>> => \A b \in SelectedButtons : ReachableButtons = {b}

\* The deferred transfer to toggle 2 has run and none is pending: toggle 2
\* holds focus and is the selected and the reachable one.
SelectedIsReachableWitness ==
    /\ timers = <<>>
    /\ lastEvent = Event("timeout", 2, 0, "none")
    /\ activeElement = Button(2)
    /\ SelectedButtons = {2}
    /\ ReachableButtons = {2}

(***************************************************************************)
(* C13 Defensive runtime handling: a keydown of a directional key whose    *)
(* originating toggle is not in the tracked list is ignored: the handler   *)
(* raises no error and leaves the reachable, selected and expanded state   *)
(* of every tracked toggle unchanged.                                      *)
(***************************************************************************)
UntrackedKeydownIgnored ==
    [][ ( /\ lastEvent'.kind = "keydown-nested"
          /\ lastEvent'.keyCode \in
                {keyUp, keyDown, keyLeft, keyRight, keyHome, keyEnd}
          /\ lastEvent'.modifier = "none" ) =>
            /\ thrown' = "none"
            /\ ReachableButtons' = ReachableButtons
            /\ SelectedButtons' = SelectedButtons
            /\ ExpandedButtons' = ExpandedButtons ]_vars

(***************************************************************************)
(* C12 Missing-header failure is contained: when a panel of one container  *)
(* has no matching header, the construction of that container fails with   *)
(* an error, and AriaAccordion.init over several containers still          *)
(* initializes and returns every other container.                          *)
(***************************************************************************)
allHeaders(m) == \A i \in DOMAIN m.panels : m.panels[i].header

MissingHeaderContained ==
    lastEvent.kind = "init" =>
        /\ (~allHeaders(markup) /\ allHeaders(other.markup)) =>
                /\ DOMAIN other.attrs.ariaExpanded = DOMAIN other.markup.panels
                /\ includes(instances, "other")
        /\ (allHeaders(markup) /\ ~allHeaders(other.markup)) =>
                /\ Buttons = DOMAIN markup.panels
                /\ includes(instances, "this")

(***************************************************************************)
(* C14 Instance isolation: with two accordion instances on one page, an    *)
(* event handled by one instance leaves the expanded, hidden, selected and *)
(* reachable state of every panel and toggle of the other instance         *)
(* unchanged, whatever ids the panels of the two containers carry.         *)
(***************************************************************************)
InstanceIsolation ==
    [][ /\ other.attrs.ariaExpanded' = other.attrs.ariaExpanded
        /\ other.attrs.ariaHidden' = other.attrs.ariaHidden
        /\ other.attrs.ariaSelected' = other.attrs.ariaSelected
        /\ other.attrs.tabindex' = other.attrs.tabindex ]_vars

(***************************************************************************)
(* C20 Last move wins: when clicks and directional keys interleave with    *)
(* their pending deferred focus transfers, then once every pending         *)
(* transfer has run, in the order scheduled, and no further input has      *)
(* arrived, the toggle holding input focus, the selected toggle and the    *)
(* reachable toggle are all the target of the transfer scheduled last.     *)
(***************************************************************************)
lastScheduled ==
    LET S == {k \in 1..Len(history) : history[k].scheduled # Null}
    IN  IF S = {} THEN Null
        ELSE history[CHOOSE k \in S : \A j \in S : j <= k].scheduled

LastMoveWins ==
    ( /\ timers = <<>>
      /\ history # <<>>
      /\ history[Len(history)].kind = "timeout" ) =>
        /\ activeElement = Button(lastScheduled)
        /\ SelectedButtons = {lastScheduled}
        /\ ReachableButtons = {lastScheduled}

\* Toggles 1 and 2 were clicked in a row; the first transfer ran, Up was
\* pressed on toggle 1 while the transfer to toggle 2 was pending, and both
\* pending transfers ran: toggle 0, scheduled last, holds focus.
LastMoveWinsWitness ==
    /\ [k \in 1..Len(history) |-> history[k].kind] =
            <<"click", "click", "timeout", "keydown", "timeout", "timeout">>
    /\ [k \in 1..Len(history) |-> history[k].scheduled] =
            <<1, 2, Null, 0, Null, Null>>
    /\ timers = <<>>
    /\ activeElement = Button(0)
    /\ OnlyToggle(0)

====
